---- MODULE Spec2Model ----
(***************************************************************************)
(* Model of stltools' brep.py: fromstl (format detection and header        *)
(* extraction), the generators _readbinary and _readtext, the collector    *)
(* allfacets and the vector helpers _sub, _cross, _norm.                   *)
(*                                                                         *)
(* A file is the Python 2 str that stlfile.read() returns: a sequence of   *)
(* byte values.  Tokens, names and records are byte sequences as well.     *)
(* Floats are modelled on the non-negative integer values the inputs use,  *)
(* where every operation of the code is exact.                             *)
(***************************************************************************)
EXTENDS Integers, Sequences, FiniteSets, TLC

\* Largest number of facets (text) or records (binary) in a generated file.
MaxFacets == 2

----------------------------------------------------------------------------
\* Byte strings the code mentions.
S_vertex  == <<118, 101, 114, 116, 101, 120>>            \* 'vertex'
S_solidsp == <<115, 111, 108, 105, 100, 32>>             \* 'solid '
S_solid   == <<115, 111, 108, 105, 100>>                 \* 'solid'
S_facet   == <<102, 97, 99, 101, 116>>                   \* 'facet'
S_unknown == <<117, 110, 107, 110, 111, 119, 110>>       \* 'unknown'
\* Byte strings only the input files mention.
S_normal   == <<110, 111, 114, 109, 97, 108>>            \* 'normal'
S_outer    == <<111, 117, 116, 101, 114>>                \* 'outer'
S_loop     == <<108, 111, 111, 112>>                     \* 'loop'
S_endloop  == <<101, 110, 100, 108, 111, 111, 112>>      \* 'endloop'
S_endfacet == <<101, 110, 100, 102, 97, 99, 101, 116>>   \* 'endfacet'
S_endsolid == <<101, 110, 100, 115, 111, 108, 105, 100>> \* 'endsolid'
S_s        == <<115>>                                    \* 's'
S_My       == <<77, 121>>                                \* 'My'
S_Cube     == <<67, 117, 98, 101>>                       \* 'Cube'
S_cube     == <<99, 117, 98, 101>>                       \* 'cube'
S_x        == <<120>>                                    \* 'x'
S_my       == <<109, 121>>                               \* 'my'

\* data.find('vertex', 120): the offset the search starts at.
FindStart == 120
\* struct format "=80sI": 80 bytes of name, then a 4-byte unsigned count.
NameLen == 80
HeaderLen == 84
\* struct format "=12x9f2x": the size of one binary record.
RecLen == 50
\* del items[:21]: the tokens of one text facet.
BlockLen == 21

\* str.split() without arguments splits on runs of these bytes.
Whitespace == {9, 10, 11, 12, 13, 32}
\* name.strip('\x00 \t\n\r')
StripChars == {0, 32, 9, 10, 13}

----------------------------------------------------------------------------
\* Python helpers on byte strings and lists.

SetMin(S) == CHOOSE m \in S : \A o \in S : m <= o
SetMax(S) == CHOOSE m \in S : \A o \in S : m >= o

\* s[lo:hi] with 0-based lo, exclusive hi, clipped to the string.
Slice(s, lo, hi) ==
    LET h == IF hi > Len(s) THEN Len(s) ELSE hi
    IN IF lo >= h THEN <<>> ELSE SubSeq(s, lo + 1, h)

\* s.find(sub, start): lowest 0-based offset >= start where sub occurs, or -1.
Find(s, sub, start) ==
    LET C == {i \in start..(Len(s) - Len(sub)) :
                 \A j \in 1..Len(sub) : s[i + j] = sub[j]}
    IN IF C = {} THEN -1 ELSE SetMin(C)

\* s.replace(old, ""): every non-overlapping occurrence removed, left to right.
RECURSIVE ReplaceAllEmpty(_, _)
ReplaceAllEmpty(s, old) ==
    LET i == Find(s, old, 0)
    IN IF i = -1 THEN s
       ELSE SubSeq(s, 1, i) \o ReplaceAllEmpty(Slice(s, i + Len(old), Len(s)), old)

\* s.strip(chars)
Strip(s, chars) ==
    LET K == {i \in 1..Len(s) : s[i] \notin chars}
    IN IF K = {} THEN <<>> ELSE SubSeq(s, SetMin(K), SetMax(K))

\* The tokens of s[lo..hi] (1-based, inclusive), by halves: a token that runs
\* across the middle is put together again.
RECURSIVE SplitRange(_, _, _)
SplitRange(s, lo, hi) ==
    IF lo > hi THEN <<>>
    ELSE IF lo = hi
    THEN IF s[lo] \in Whitespace THEN <<>> ELSE << <<s[lo]>> >>
    ELSE LET mid == (lo + hi) \div 2
             L == SplitRange(s, lo, mid)
             R == SplitRange(s, mid + 1, hi)
         IN IF s[mid] \notin Whitespace /\ s[mid + 1] \notin Whitespace
            THEN SubSeq(L, 1, Len(L) - 1) \o <<L[Len(L)] \o R[1]>> \o Tail(R)
            ELSE L \o R

\* s.split(): the maximal runs of non-whitespace bytes, in order.
Split(s) == SplitRange(s, 1, Len(s))

\* list.index(x): 0-based position of the first x, -1 where Python raises.
Index(items, x) ==
    LET C == {i \in 1..Len(items) : items[i] = x}
    IN IF C = {} THEN -1 ELSE SetMin(C) - 1

\* list.count(x)
Count(items, x) == Cardinality({i \in 1..Len(items) : items[i] = x})

\* ' '.join(items)
RECURSIVE Join(_)
Join(items) ==
    IF Len(items) = 0 THEN <<>>
    ELSE IF Len(items) = 1 THEN items[1]
    ELSE items[1] \o <<32>> \o Join(Tail(items))

\* struct "I": 4 bytes, little-endian unsigned.
UnpackUInt(b) == b[1] + 256 * b[2] + 65536 * b[3] + 16777216 * b[4]

Pow2(k) == IF k = 0 THEN 1 ELSE IF k = 1 THEN 2 ELSE IF k = 2 THEN 4 ELSE 8

\* struct "f": 4 bytes, little-endian IEEE single.  Decoded for the values
\* 0 and m * 2^e (0 <= e <= 3) whose results are integers.
UnpackFloat(b) ==
    LET bits == UnpackUInt(b)
        e == bits \div 8388608
        m == bits % 8388608
    IN IF bits = 0 THEN 0
       ELSE ((8388608 + m) * Pow2(e - 127)) \div 8388608

IsDigits(t) == Len(t) > 0 /\ \A i \in 1..Len(t) : t[i] \in 48..57

\* float(t) for an unsigned decimal integer literal.
RECURSIVE ParseFloat(_)
ParseFloat(t) ==
    IF Len(t) = 0 THEN 0
    ELSE 10 * ParseFloat(SubSeq(t, 1, Len(t) - 1)) + (t[Len(t)] - 48)

----------------------------------------------------------------------------
\* Vector helpers.

_sub(a, b) == <<a[1] - b[1], a[2] - b[2], a[3] - b[3]>>

_cross(a, b) == <<a[2] * b[3] - a[3] * b[2],
                  a[3] * b[1] - a[1] * b[3],
                  a[1] * b[2] - a[2] * b[1]>>

\* L of _norm, for the vectors whose squared length is a perfect square.
VLen(a) ==
    LET q == a[1] * a[1] + a[2] * a[2] + a[3] * a[3]
    IN CHOOSE r \in 0..q : r * r = q

\* _norm raises ValueError exactly when L == 0.0.
NormRaises(a) == VLen(a) = 0

_norm(a) == LET L == VLen(a) IN <<a[1] \div L, a[2] \div L, a[3] \div L>>

----------------------------------------------------------------------------
\* The files the model reads.

\* (a, b, c) of the facets written into the files: two proper triangles and
\* the collinear one.
TriA == << <<0, 0, 0>>, <<1, 0, 0>>, <<0, 1, 0>> >>
TriB == << <<0, 0, 0>>, <<2, 0, 0>>, <<0, 2, 0>> >>
TriD == << <<0, 0, 0>>, <<1, 0, 0>>, <<2, 0, 0>> >>
Triangles == {TriA, TriB, TriD}

TriSeqs == UNION {[1..n -> Triangles] : n \in 0..MaxFacets}

RECURSIVE Flatten(_)
Flatten(ss) == IF Len(ss) = 0 THEN <<>> ELSE ss[1] \o Flatten(Tail(ss))

Spaces(n) == [i \in 1..n |-> 32]
Nuls(n) == [i \in 1..n |-> 0]

Num(d) == <<48 + d>>
VertexTokens(p) == <<S_vertex, Num(p[1]), Num(p[2]), Num(p[3])>>

\* facet normal nx ny nz outer loop vertex x y z (3 times) endloop endfacet
FacetTokens(t) ==
    <<S_facet, S_normal, Num(0), Num(0), Num(0), S_outer, S_loop>>
    \o VertexTokens(t[1]) \o VertexTokens(t[2]) \o VertexTokens(t[3])
    \o <<S_endloop, S_endfacet>>

FacetsTokens(ts) == Flatten([i \in 1..Len(ts) |-> FacetTokens(ts[i])])

\* What stands before and after the facets of a text file.
Heads == { <<S_solid>>, <<S_solid, S_s>>, <<S_solid, S_My, S_Cube>>, <<>> }
Tails == { <<S_endsolid>>, <<>>, <<S_endsolid, S_solid, S_s>> }

TextFile(pad, toks) == Spaces(pad) \o Join(toks)

TextFiles ==
    { TextFile(pad, h \o FacetsTokens(ts) \o tl) :
        pad \in {0, FindStart}, h \in Heads, ts \in TriSeqs, tl \in Tails }

\* Text files that leave the grammar: no facet at all, a coordinate that is
\* not a number, a facet cut short, and a file shorter than a binary header.
OddTextFiles ==
    { TextFile(FindStart, <<S_solid, S_s, S_outer, S_loop>>
                          \o VertexTokens(<<0, 0, 0>>) \o <<S_endsolid>>),
      TextFile(FindStart, <<S_solid, S_s>>
                          \o [FacetTokens(TriA) EXCEPT ![13] = S_x]
                          \o <<S_endsolid>>),
      TextFile(FindStart, <<S_solid, S_s>> \o SubSeq(FacetTokens(TriA), 1, 12)),
      TextFile(0, <<S_solid, S_s, S_endsolid>>) }

PackUInt(n) == <<n % 256, (n \div 256) % 256, 0, 0>>
PackFloat(v) == IF v = 0 THEN <<0, 0, 0, 0>>
                ELSE IF v = 1 THEN <<0, 0, 128, 63>>
                ELSE <<0, 0, 0, 64>>
PackVertex(p) == PackFloat(p[1]) \o PackFloat(p[2]) \o PackFloat(p[3])
Record(t) == Nuls(12) \o PackVertex(t[1]) \o PackVertex(t[2]) \o PackVertex(t[3])
             \o Nuls(2)

\* The name field of a binary header, before NUL padding.
HeaderNames ==
    { S_solidsp \o S_cube,                  \* 'solid cube'
      S_cube,                               \* 'cube'
      Spaces(3),                            \* blank
      S_my \o <<32>> \o S_solidsp \o S_cube,  \* 'my solid cube'
      <<9>> \o S_cube \o <<13, 10>> }       \* '\tcube\r\n'

\* Bytes that may follow the last whole record.
Trailing == {0, 7}

BinaryFile(h, n, ts, x) ==
    h \o Nuls(NameLen - Len(h)) \o PackUInt(n)
    \o Flatten([i \in 1..Len(ts) |-> Record(ts[i])]) \o Nuls(x)

BinaryFiles ==
    { BinaryFile(h, n, ts, x) :
        h \in HeaderNames, n \in 0..(MaxFacets + 1), ts \in TriSeqs, x \in Trailing }

Files == TextFiles \cup OddTextFiles \cup BinaryFiles

----------------------------------------------------------------------------
\* Values the generators yield.

NoneVal == [isNone |-> TRUE]
Facet(a, b, c, n) == [isNone |-> FALSE, a |-> a, b |-> b, c |-> c, n |-> n]

\* 'facet {} OK'.format(k) and 'skipped degenerate facet {}.'.format(k)
StatusOK(k) == [kind |-> "OK", idx |-> k]
StatusSkipped(k) == [kind |-> "skipped", idx |-> k]

Item(st, f) == [status |-> st, facet |-> f]

----------------------------------------------------------------------------
\* fromstl

\* Line 49: the file is read as binary when 'vertex' is absent from offset 120.
IsBinary(d) == Find(d, S_vertex, FindStart) = -1

\* Lines 50-54: the name of a binary file, from the 80-byte field.
BinaryName(field) ==
    LET n1 == ReplaceAllEmpty(field, S_solidsp)
        n2 == Strip(n1, StripChars)
    IN IF Len(n2) = 0 THEN S_unknown ELSE n2

\* Line 57: nf2 = facetsz / 50 on Python 2 ints.
RecordCount(facetsz) == facetsz \div RecLen

\* Line 60: [data[n:n+50] for n in range(0, facetsz, 50)]
Blocks(d) ==
    LET k == (Len(d) + RecLen - 1) \div RecLen
    IN [i \in 1..k |-> Slice(d, (i - 1) * RecLen, i * RecLen)]

\* Variant that only looks for 'facet', leaving sn = 0 when 'solid' is absent.
TextRejectedFacetOnly(toks) == Index(toks, S_facet) = -1

\* Lines 64-68: either index() raises and fromstl raises 'Not an STL file.'
TextRejected(toks) == Index(toks, S_solid) = -1 \/ Index(toks, S_facet) = -1

\* Lines 65-72: the name of a text file, from its tokens.
TextName(toks) ==
    LET sn == Index(toks, S_solid) + 1
        en == Index(toks, S_facet)
    IN IF sn = en THEN S_unknown ELSE Join(Slice(toks, sn, en))

\* The outcome of fromstl(fname) on the contents d.
FromStlResult(d) ==
    IF IsBinary(d)
    THEN IF Len(d) < HeaderLen
         THEN [ok |-> FALSE, err |-> "struct.error"]
         ELSE LET nf1 == UnpackUInt(Slice(d, NameLen, HeaderLen))
                  rest == Slice(d, HeaderLen, Len(d))
              IN IF nf1 # RecordCount(Len(rest))
                 THEN [ok |-> FALSE, err |-> "Number of facets doesn't match file size."]
                 ELSE [ok |-> TRUE, fmt |-> "binary",
                       name |-> BinaryName(Slice(d, 0, NameLen)),
                       nf |-> nf1, items |-> Blocks(rest)]
    ELSE LET toks == Split(d)
         IN IF TextRejected(toks)
            THEN [ok |-> FALSE, err |-> "Not an STL file."]
            ELSE [ok |-> TRUE, fmt |-> "text",
                  name |-> TextName(toks),
                  nf |-> Count(toks, S_facet),
                  items |-> Slice(toks, Index(toks, S_facet), Len(toks))]

----------------------------------------------------------------------------
\* The generators.  A resumption ends in a yield, in StopIteration or in an
\* exception; pend holds the item of line 130 / 164 while the generator is
\* suspended at the yield of line 129 / 163.

\* Variant with a single yield per record: the degenerate record yields None only.
EmitOnce(a, b, c, k) ==
    LET u == _sub(b, a)
        v == _sub(c, b)
        n == _cross(u, v)
    IN IF NormRaises(n)
       THEN [first |-> Item(StatusSkipped(k), NoneVal), pend |-> <<>>]
       ELSE [first |-> Item(StatusOK(k), Facet(a, b, c, _norm(n))),
             pend |-> <<>>]

\* The facet and the items of one record with vertices a, b, c, numbered k.
Emit(a, b, c, k) ==
    LET u == _sub(b, a)
        v == _sub(c, b)
        n == _cross(u, v)
    IN IF NormRaises(n)
       THEN [first |-> Item(StatusSkipped(k), NoneVal),
             pend |-> <<Item(StatusSkipped(k), Facet(a, b, c, n))>>]
       ELSE [first |-> Item(StatusOK(k), Facet(a, b, c, _norm(n))),
             pend |-> <<>>]

\* struct.unpack("=12x9f2x", i): the 9 floats after 12 skipped bytes.
UnpackRecord(i) == [k \in 1..9 |-> UnpackFloat(Slice(i, 12 + 4 * (k - 1), 12 + 4 * k))]

\* One resumption of _readbinary(items) with cnt records consumed.
ReadBinary(its, c, pd) ==
    IF pd # <<>>
    THEN [kind |-> "yield", item |-> pd[1], items |-> its, cnt |-> c, pend |-> <<>>]
    ELSE IF c >= Len(its)
    THEN [kind |-> "stop"]
    ELSE IF Len(its[c + 1]) # RecLen
    THEN [kind |-> "raise", err |-> "struct.error"]
    ELSE LET f == UnpackRecord(its[c + 1])
             e == Emit(<<f[1], f[2], f[3]>>, <<f[4], f[5], f[6]>>,
                       <<f[7], f[8], f[9]>>, c + 1)
         IN [kind |-> "yield", item |-> e.first, items |-> its, cnt |-> c + 1,
             pend |-> e.pend]

\* The token offsets lines 150-152 read, in evaluation order.
CoordOffsets == <<8, 9, 10, 12, 13, 14, 16, 17, 18>>

\* One resumption of _readtext(items).
ReadText(its, c, pd) ==
    IF pd # <<>>
    THEN [kind |-> "yield", item |-> pd[1], items |-> its, cnt |-> c, pend |-> <<>>]
    ELSE IF Len(its) = 0
    THEN [kind |-> "raise", err |-> "IndexError"]
    ELSE IF its[1] # S_facet
    THEN [kind |-> "stop"]
    ELSE LET Bad == {k \in 1..9 : \/ CoordOffsets[k] >= Len(its)
                                  \/ ~IsDigits(its[CoordOffsets[k] + 1])}
         IN IF Bad # {}
            THEN [kind |-> "raise",
                  err |-> IF CoordOffsets[SetMin(Bad)] >= Len(its)
                          THEN "IndexError" ELSE "ValueError"]
            ELSE LET f == [k \in 1..9 |-> ParseFloat(its[CoordOffsets[k] + 1])]
                     e == Emit(<<f[1], f[2], f[3]>>, <<f[4], f[5], f[6]>>,
                               <<f[7], f[8], f[9]>>, c + 1)
                 IN [kind |-> "yield", item |-> e.first,
                     items |-> Slice(its, BlockLen, Len(its)), cnt |-> c + 1,
                     pend |-> e.pend]

\* Line 95: 'if facet:' -- None is false, a 4-tuple is true.
Truthy(f) == ~f.isNone

----------------------------------------------------------------------------
VARIABLES
    data,   \* the contents of the file
    pc,     \* "start", "failed" (fromstl raised), "reading" (allfacets loops),
            \* "returned" (allfacets returned fl), "raised" (the reader raised)
    err,    \* the exception raised, "" when none
    fmt,    \* "binary" or "text" once fromstl returned, "" before
    name,   \* name returned by fromstl
    nf,     \* nf returned by fromstl
    items,  \* the list the generator holds
    cnt,    \* cnt of the generator: records consumed so far
    pend,   \* the item of the second yield, while suspended at the first
    out,    \* every (status, facet) the reader yielded, in order
    fl      \* fl of allfacets

vars == <<data, pc, err, fmt, name, nf, items, cnt, pend, out, fl>>

Init ==
    /\ data \in Files
    /\ pc = "start"
    /\ err = ""
    /\ fmt = ""
    /\ name = <<>>
    /\ nf = 0
    /\ items = <<>>
    /\ cnt = 0
    /\ pend = <<>>
    /\ out = <<>>
    /\ fl = <<>>

\* name, nf, reader = fromstl(fname)
fromstl ==
    /\ pc = "start"
    /\ LET r == FromStlResult(data)
       IN IF r.ok
          THEN /\ pc' = "reading"
               /\ fmt' = r.fmt
               /\ name' = r.name
               /\ nf' = r.nf
               /\ items' = r.items
               /\ UNCHANGED err
          ELSE /\ pc' = "failed"
               /\ err' = r.err
               /\ UNCHANGED <<fmt, name, nf, items>>
    /\ UNCHANGED <<data, cnt, pend, out, fl>>

\* One iteration of 'for stat, facet in reader' of allfacets: the reader is
\* resumed, and what it yields is appended to fl if it is true.
Iterate(r) ==
    IF r.kind = "yield"
    THEN /\ items' = r.items
         /\ cnt' = r.cnt
         /\ pend' = r.pend
         /\ out' = Append(out, r.item)
         /\ fl' = IF Truthy(r.item.facet) THEN Append(fl, r.item.facet) ELSE fl
         /\ UNCHANGED <<pc, err>>
    ELSE IF r.kind = "stop"
    THEN /\ pc' = "returned"
         /\ UNCHANGED <<err, items, cnt, pend, out, fl>>
    ELSE /\ pc' = "raised"
         /\ err' = r.err
         /\ UNCHANGED <<items, cnt, pend, out, fl>>

\* allfacets over the reader _readbinary(items)
allfacets_readbinary ==
    /\ pc = "reading"
    /\ fmt = "binary"
    /\ Iterate(ReadBinary(items, cnt, pend))
    /\ UNCHANGED <<data, fmt, name, nf>>

\* allfacets over the reader _readtext(items)
allfacets_readtext ==
    /\ pc = "reading"
    /\ fmt = "text"
    /\ Iterate(ReadText(items, cnt, pend))
    /\ UNCHANGED <<data, fmt, name, nf>>

Next == fromstl \/ allfacets_readbinary \/ allfacets_readtext

Spec == Init /\ [][Next]_vars

TypeOK ==
    /\ pc \in {"start", "failed", "reading", "returned", "raised"}
    /\ fmt \in {"", "binary", "text"}
    /\ cnt \in 0..(MaxFacets + 1)
    /\ Len(pend) <= 1
    /\ Len(fl) <= Len(out)

----------------------------------------------------------------------------
\* What the properties say about a file, read off its bytes.

\* The tokens of a text file from its first 'facet' on.
FacetPart(d) ==
    LET toks == Split(d)
    IN Slice(toks, Index(toks, S_facet), Len(toks))

\* Block k of the tokens ts follows the 21-token grammar.
GrammarBlock(ts, k) ==
    LET o == BlockLen * (k - 1)
    IN /\ Len(ts) >= o + BlockLen
       /\ ts[o + 1] = S_facet /\ ts[o + 2] = S_normal
       /\ \A j \in {3, 4, 5} : IsDigits(ts[o + j])
       /\ ts[o + 6] = S_outer /\ ts[o + 7] = S_loop
       /\ \A j \in {8, 12, 16} : ts[o + j] = S_vertex
       /\ \A j \in {9, 10, 11, 13, 14, 15, 17, 18, 19} : IsDigits(ts[o + j])
       /\ ts[o + 20] = S_endloop /\ ts[o + 21] = S_endfacet

\* The facets of the text file d follow the 21-token grammar: its 'facet'
\* tokens head consecutive well-formed blocks.
TextGrammar(d) ==
    LET ts == FacetPart(d)
        k == Count(Split(d), S_facet)
    IN /\ k >= 1
       /\ \A j \in 1..k : GrammarBlock(ts, j)

\* The vertices (a, b, c) of record k of the file, by the format fromstl chose.
FileTriangle(d, k) ==
    IF IsBinary(d)
    THEN LET o == HeaderLen + RecLen * (k - 1) + 12
             F(j) == UnpackFloat(Slice(d, o + 4 * (j - 1), o + 4 * j))
         IN << <<F(1), F(2), F(3)>>, <<F(4), F(5), F(6)>>, <<F(7), F(8), F(9)>> >>
    ELSE LET ts == FacetPart(d)
             o == BlockLen * (k - 1)
             F(j) == ParseFloat(ts[o + j])
         IN << <<F(9), F(10), F(11)>>, <<F(13), F(14), F(15)>>, <<F(17), F(18), F(19)>> >>

Degenerate(t) == _cross(_sub(t[2], t[1]), _sub(t[3], t[2])) = <<0, 0, 0>>

IsUnit(n) == n[1] * n[1] + n[2] * n[2] + n[3] * n[3] = 1

\* The number of whole 50-byte records after the header of a binary file.
WholeRecords(d) == (Len(d) - HeaderLen) \div RecLen

DeclaredCount(d) == UnpackUInt(Slice(d, NameLen, HeaderLen))

Opened == pc \in {"reading", "returned", "raised"}

\* The one-facet ASCII file of the end-to-end example.
MinimalStl == TextFile(0, <<S_solid, S_s>> \o FacetTokens(TriA) \o <<S_endsolid>>)

----------------------------------------------------------------------------
\* C1: the list allfacets builds holds no entry for a degenerate facet: every
\* collected facet has a non-zero cross product and a unit normal.
C1_NoDegenerateCollected ==
    \A i \in 1..Len(fl) :
        /\ ~Degenerate(<<fl[i].a, fl[i].b, fl[i].c>>)
        /\ IsUnit(fl[i].n)

\* C2: on a binary-classified file, fromstl raises the mismatch ValueError
\* exactly when the bytes after the header are not a multiple of 50 or the
\* declared count differs from the number of records.
C2_MismatchRejected ==
    (pc # "start" /\ IsBinary(data) /\ Len(data) >= HeaderLen) =>
        ((pc = "failed" /\ err = "Number of facets doesn't match file size.")
         <=> \/ (Len(data) - HeaderLen) % RecLen # 0
             \/ DeclaredCount(data) # WholeRecords(data))

\* C3: for an accepted binary file, nf equals the number of 50-byte records
\* and the number of items the drained stream yielded.
C3_BinaryCounts ==
    (pc = "returned" /\ fmt = "binary") =>
        /\ nf = WholeRecords(data)
        /\ nf = Len(out)

\* C4: for an accepted text file whose facets follow the grammar, nf (the
\* number of 'facet' tokens) equals the number of items the drained stream
\* yielded.
C4_TextCounts ==
    (pc = "returned" /\ fmt = "text" /\ TextGrammar(data)) =>
        /\ nf = Count(Split(data), S_facet)
        /\ nf = Len(out)

\* C5: the minimal one-facet ASCII file is classified as text and allfacets
\* returns exactly the facet (0,0,0), (1,0,0), (0,1,0) with normal (0,0,1).
C5_MinimalEndToEnd ==
    (data = MinimalStl /\ pc # "start") =>
        /\ Opened /\ fmt = "text"
        /\ pc # "raised"
        /\ pc = "returned" =>
              fl = <<Facet(<<0, 0, 0>>, <<1, 0, 0>>, <<0, 1, 0>>, <<0, 0, 1>>)>>

\* C6: for an accepted text file the name is the space-joined tokens strictly
\* between the first 'solid' and the first 'facet', 'unknown' when there are
\* none, and never the empty string.
C6_TextNameNeverEmpty ==
    (Opened /\ fmt = "text") =>
        LET toks == Split(data)
            s == Index(toks, S_solid)
            f == Index(toks, S_facet)
            between == IF s < f THEN Slice(toks, s + 1, f) ELSE <<>>
        IN /\ name = IF between = <<>> THEN S_unknown ELSE Join(between)
           /\ name # <<>>

\* C7: for an accepted binary file the name is the 80-byte field with only a
\* leading 'solid ' removed, trimmed of NUL/space/tab/CR/LF, or 'unknown'
\* when nothing is left.
C7_BinaryNameLeadingPrefix ==
    (Opened /\ fmt = "binary") =>
        LET field == Slice(data, 0, NameLen)
            cut == IF Slice(field, 0, Len(S_solidsp)) = S_solidsp
                   THEN Slice(field, Len(S_solidsp), Len(field)) ELSE field
            trimmed == Strip(cut, StripChars)
        IN name = IF trimmed = <<>> THEN S_unknown ELSE trimmed

\* C8: once a facet block is consumed and the token at the cursor is not
\* 'facet' (also when no token is left), the text stream ends without
\* raising.
C8_TextEndsCleanly ==
    (fmt = "text" /\ cnt >= 1 /\ pend = <<>>
        /\ (Len(items) = 0 \/ items[1] # S_facet)) =>
    pc # "raised"

\* The items record k of the file is to yield.
C9_Expected(k) ==
    LET t == FileTriangle(data, k)
        n == _cross(_sub(t[2], t[1]), _sub(t[3], t[2]))
    IN IF Degenerate(t)
       THEN <<Item(StatusSkipped(k), NoneVal),
              Item(StatusSkipped(k), Facet(t[1], t[2], t[3], <<0, 0, 0>>))>>
       ELSE <<Item(StatusOK(k), Facet(t[1], t[2], t[3], _norm(n)))>>

C10_TextRejection ==
    (pc # "start" /\ ~IsBinary(data)) =>
        LET toks == Split(data)
        IN /\ (pc = "failed" /\ err = "Not an STL file.")
                <=> (Count(toks, S_facet) = 0 \/ Count(toks, S_solid) = 0)
           /\ pc = "failed" => err = "Not an STL file."

\* A text file with 'facet' tokens and no 'solid' token was rejected.
C10_Witness ==
    /\ pc = "failed"
    /\ ~IsBinary(data)
    /\ Count(Split(data), S_facet) > 0
    /\ Count(Split(data), S_solid) = 0

====
